---- MODULE Spec2Model ----
(***************************************************************************)
(* Model of package googlejson: the Response envelope, its Data payload    *)
(* (item list, field list, item cursor) and its Error payload.             *)
(*                                                                         *)
(* Go strings that the code splits and joins (Data.Fields, field names)    *)
(* are sequences of one-character strings.  A json.RawMessage is a         *)
(* sequence of JSON tokens, the nil/empty message being << >>.  A Go slice *)
(* is a sequence (nil and empty slices are both << >>): Go index i is      *)
(* TLA+ index i + 1.  A run-time panic is an outcome of a call (the caller *)
(* may recover from it), with the assignments made before it kept.         *)
(***************************************************************************)
EXTENDS Integers, Sequences, FiniteSets, TLC

VARIABLES
    resp,     \* the Response the caller works on (made by New())
    copies,   \* the Responses made by Copy(), in creation order
    heap,     \* the map[string]string objects, by reference (Params holds a reference)
    ret,      \* what the last call returned (or that it panicked)
    pre,      \* resp, copies and heap as they were before the last call
    nOK,      \* history: number of AddItem calls on resp.Data that returned nil
    passed    \* history: every name passed to AddField on resp.Data, in order

vars == <<resp, copies, heap, ret, pre, nOK, passed>>

----------------------------------------------------------------------------
(* Bounds of the model. *)

MaxItems == 3
MaxCursor == 4
MaxKeys == 2
MaxPassed == 3
MaxCopies == 2

----------------------------------------------------------------------------
(* Values a caller passes to AddItem and receives from CurrentItem/NextItem. *)

\* CarItem{Color, Type} of the tests; "chan" is a value encoding/json cannot
\* serialize (json.Marshal returns an UnsupportedTypeError for it).
CarItem(c, t) == [kind |-> "CarItem", color |-> c, type |-> t]

RedSUV == CarItem("red", "SUV")

GreenHatchback == CarItem("green", "hatchback")

Unserializable == [kind |-> "chan", color |-> "", type |-> ""]

\* The target a caller passes in, untouched (new(CarItem) not written to).
NoValue == [kind |-> "none", color |-> "", type |-> ""]

Records == {RedSUV, GreenHatchback, Unserializable}

NoError == "nil"

ErrUnsupportedType == "json: unsupported type"

ErrSyntax == "unexpected end of JSON input"

ErrEndOfItems == "End of items"

\* json.Marshal: the compact object text of a CarItem; (nil, error) for a
\* value of an unsupported type.
Marshal(v) ==
    IF v.kind = "CarItem"
    THEN [js |-> <<"{", "color", ":", v.color, ",", "type", ":", v.type, "}">>,
          err |-> NoError]
    ELSE [js |-> << >>, err |-> ErrUnsupportedType]

\* json.Unmarshal into a fresh *CarItem: a syntax error on input that is not
\* a JSON value (the empty message), the target left untouched.
Unmarshal(js) ==
    IF /\ Len(js) = 9
       /\ js[1] = "{" /\ js[2] = "color" /\ js[3] = ":" /\ js[5] = ","
       /\ js[6] = "type" /\ js[7] = ":" /\ js[9] = "}"
    THEN [out |-> CarItem(js[4], js[8]), err |-> NoError]
    ELSE [out |-> NoValue, err |-> ErrSyntax]

----------------------------------------------------------------------------
(* strings.Split(s, ",") and strings.Join(list, ","). *)

Comma == ","

RECURSIVE Split(_)
Split(s) ==
    IF \A i \in 1..Len(s) : s[i] # Comma
    THEN <<s>>
    ELSE LET i == CHOOSE k \in 1..Len(s) :
                      s[k] = Comma /\ \A j \in 1..(k - 1) : s[j] # Comma
         IN  <<SubSeq(s, 1, i - 1)>> \o Split(SubSeq(s, i + 1, Len(s)))

RECURSIVE Join(_)
Join(list) ==
    IF list = << >> THEN << >>
    ELSE IF Len(list) = 1 THEN list[1]
    ELSE list[1] \o <<Comma>> \o Join(Tail(list))

----------------------------------------------------------------------------
(* type Data and its methods, as functions of the receiver's value. *)

ZeroData ==
    [Kind |-> "", Fields |-> << >>, Etag |-> "", ID |-> "", Lang |-> "",
     Updated |-> "", Deleted |-> FALSE, CurrentItemCount |-> 0,
     ItemsPerPage |-> 0, StartIndex |-> 0, TotalItems |-> 0, PageIndex |-> 0,
     TotalPages |-> 0, SelfLink |-> "", EditLink |-> "", NextLink |-> "",
     PreviousLink |-> "", Items |-> << >>, item |-> 0]

\* NewData: the zero Data with an empty (non-nil) Items slice.
NewData == [ZeroData EXCEPT !.Items = << >>]

GetFieldsNoEmptyCase(d) == Split(d.Fields)

GetFields(d) == IF d.Fields = << >> THEN << >> ELSE Split(d.Fields)

AddFieldPrepends(d, keys) == [d EXCEPT !.Fields = Join(keys \o GetFields(d))]

AddFieldOp(d, keys) == [d EXCEPT !.Fields = Join(GetFields(d) \o keys)]

SetItemCount(d) == [d EXCEPT !.CurrentItemCount = Len(d.Items)]

ItemsCount(d) == Len(d.Items)

AddItemPrepends(d, v) ==
    LET m  == Marshal(v)
        d1 == [d EXCEPT !.Items = <<m.js>> \o d.Items]
    IN  IF m.err # NoError
        THEN [d |-> d1, err |-> m.err]
        ELSE [d |-> SetItemCount(d1), err |-> NoError]

\* AddItem appends the marshalled bytes before it looks at the error.
AddItemOp(d, v) ==
    LET m  == Marshal(v)
        d1 == [d EXCEPT !.Items = Append(d.Items, m.js)]
    IN  IF m.err # NoError
        THEN [d |-> d1, err |-> m.err]
        ELSE [d |-> SetItemCount(d1), err |-> NoError]

\* CurrentItem indexes d.Items[d.item] unchecked: out of range is a run-time panic.
CurrentItemOp(d) ==
    IF d.item < 0 \/ d.item >= Len(d.Items)
    THEN [d |-> d, err |-> NoError, out |-> NoValue, panicked |-> TRUE]
    ELSE LET u == Unmarshal(d.Items[d.item + 1])
         IN  [d |-> d, err |-> u.err, out |-> u.out, panicked |-> FALSE]

NextItemReadThenAdvance(d) ==
    IF ItemsCount(d) = d.item + 1
    THEN [d |-> d, err |-> ErrEndOfItems, out |-> NoValue, panicked |-> FALSE]
    ELSE LET c == CurrentItemOp(d)
         IN  [c EXCEPT !.d = [d EXCEPT !.item = d.item + 1]]

NextItemOp(d) ==
    LET count == ItemsCount(d)
    IN  IF count = d.item + 1
        THEN [d |-> d, err |-> ErrEndOfItems, out |-> NoValue, panicked |-> FALSE]
        ELSE CurrentItemOp([d EXCEPT !.item = d.item + 1])

ResetItemsOp(d) == [d EXCEPT !.item = 0]

----------------------------------------------------------------------------
(* type Error, type Response, New and Copy. *)

ZeroError == [Code |-> 0, Message |-> "", Errors |-> << >>]

ParamKeys == {"color", "type"}

ParamVals == {"yellow", "red"}

Absent == "(absent)"

\* make(map[string]string): no key present.
EmptyMap == [k \in ParamKeys |-> Absent]

\* The nil map reference (the zero value of the Params field).
NilMap == 0

\* New(): Params refers to a map allocated for this Response (reference p).
New(p) ==
    [APIVersion |-> "", Context |-> "", ID |-> "", Method |-> "",
     Params |-> p, Data |-> NewData, Error |-> ZeroError]

CopyKeepsContext(r) ==
    [APIVersion |-> r.APIVersion, Context |-> r.Context, ID |-> "",
     Method |-> r.Method, Params |-> r.Params,
     Data |-> ZeroData, Error |-> ZeroError]

\* Copy(): a Response literal naming APIVersion, Method and Params only; the
\* map reference is copied, not the map.
CopyOp(r) ==
    [APIVersion |-> r.APIVersion, Context |-> "", ID |-> "",
     Method |-> r.Method, Params |-> r.Params,
     Data |-> ZeroData, Error |-> ZeroError]

\* Response number t: 0 is resp, t >= 1 is the t-th copy.
Env(rs, cs, t) == IF t = 0 THEN rs ELSE cs[t]

\* The contents of the map a Params reference points to (none for nil).
MapOf(h, ref) == IF ref = NilMap THEN EmptyMap ELSE h[ref]

----------------------------------------------------------------------------
(* json.Marshal and json.Unmarshal of a Response.  A JSON object is the     *)
(* sequence of its members <<name, value>> in struct order; the empty       *)
(* sequence is "no bytes".                                                  *)

\* A field tagged omitempty: left out when "", 0 or of length 0.
OmitStr(k, s) == IF s = "" THEN << >> ELSE << <<k, s>> >>

OmitInt(k, n) == IF n = 0 THEN << >> ELSE << <<k, n>> >>

OmitSeq(k, q) == IF Len(q) = 0 THEN << >> ELSE << <<k, q>> >>

\* A map[string]string tagged omitempty: left out when nil or without keys.
OmitMap(k, m) ==
    IF \A x \in ParamKeys : m[x] = Absent THEN << >> ELSE << <<k, m>> >>

\* A json.RawMessage is written as it is; what a nil one gives depends on the
\* Go release: the literal null (nilAsNull), or no bytes, which the encoder
\* rejects.
EncodeItem(js, nilAsNull) ==
    IF js # << >> THEN js ELSE IF nilAsNull THEN <<"null">> ELSE << >>

EncodeItems(items, nilAsNull) ==
    [i \in 1..Len(items) |-> EncodeItem(items[i], nilAsNull)]

EncodeData(d, nilAsNull) ==
    OmitStr("kind", d.Kind) \o OmitSeq("fields", d.Fields)
    \o OmitStr("etag", d.Etag) \o OmitStr("id", d.ID)
    \o OmitStr("lang", d.Lang) \o OmitStr("updated", d.Updated)
    \o << <<"deleted", d.Deleted>> >>
    \o OmitInt("currentItemCount", d.CurrentItemCount)
    \o OmitInt("itemsPerPage", d.ItemsPerPage)
    \o OmitInt("startIndex", d.StartIndex)
    \o OmitInt("totalItems", d.TotalItems)
    \o OmitInt("pageIndex", d.PageIndex)
    \o OmitInt("totalPages", d.TotalPages)
    \o OmitStr("selfLink", d.SelfLink) \o OmitStr("editLink", d.EditLink)
    \o OmitStr("nextLink", d.NextLink)
    \o OmitStr("previousLink", d.PreviousLink)
    \o OmitSeq("items", EncodeItems(d.Items, nilAsNull))

EncodeErrorItem(e) ==
    OmitStr("message", e.Message) \o OmitStr("location", e.Location)
    \o OmitStr("locationType", e.LocationType)
    \o OmitStr("extendedHelper", e.ExtendedHelper)
    \o OmitStr("domain", e.Domains) \o OmitStr("reason", e.Reason)
    \o OmitStr("sendReport", e.SendReport)

EncodeError(e) ==
    OmitInt("code", e.Code) \o OmitStr("message", e.Message)
    \o OmitSeq("errors", [i \in 1..Len(e.Errors) |-> EncodeErrorItem(e.Errors[i])])

\* The embedded structs Data and Error carry a name tag: they are the members
\* "data" and "error", and a struct is never empty for omitempty.
EncodeResponse(r, h, nilAsNull) ==
    OmitStr("apiVersion", r.APIVersion) \o OmitStr("context", r.Context)
    \o OmitStr("id", r.ID) \o OmitStr("method", r.Method)
    \o OmitMap("params", MapOf(h, r.Params))
    \o << <<"data", EncodeData(r.Data, nilAsNull)>> >>
    \o << <<"error", EncodeError(r.Error)>> >>

\* json.Marshal(r): an error, and no bytes, when an item is not a JSON value.
MarshalResponse(r, h, nilAsNull) ==
    IF \E i \in 1..Len(r.Data.Items) :
           EncodeItem(r.Data.Items[i], nilAsNull) = << >>
    THEN [bytes |-> << >>, err |-> ErrSyntax]
    ELSE [bytes |-> EncodeResponse(r, h, nilAsNull), err |-> NoError]

WriteNoRefresh(r, h, nilAsNull) ==
    LET m == MarshalResponse(r, h, nilAsNull)
    IN  [r |-> r, bytes |-> m.bytes, err |-> m.err]

\* Write(): SetItemCount on the embedded Data, then json.Marshal(r).
WriteOp(r, h, nilAsNull) ==
    LET r1 == [r EXCEPT !.Data = SetItemCount(r.Data)]
        m  == MarshalResponse(r1, h, nilAsNull)
    IN  [r |-> r1, bytes |-> m.bytes, err |-> m.err]

\* The value of member k of a JSON object; dflt when the object has no such member.
Member(obj, k, dflt) ==
    IF \E i \in 1..Len(obj) : obj[i][1] = k
    THEN obj[CHOOSE i \in 1..Len(obj) : obj[i][1] = k][2]
    ELSE dflt

\* json.Unmarshal into a struct: a member sets its field, a field without a
\* member keeps the value it had.
DecodeData(obj, d) ==
    [Kind |-> Member(obj, "kind", d.Kind),
     Fields |-> Member(obj, "fields", d.Fields),
     Etag |-> Member(obj, "etag", d.Etag),
     ID |-> Member(obj, "id", d.ID),
     Lang |-> Member(obj, "lang", d.Lang),
     Updated |-> Member(obj, "updated", d.Updated),
     Deleted |-> Member(obj, "deleted", d.Deleted),
     CurrentItemCount |-> Member(obj, "currentItemCount", d.CurrentItemCount),
     ItemsPerPage |-> Member(obj, "itemsPerPage", d.ItemsPerPage),
     StartIndex |-> Member(obj, "startIndex", d.StartIndex),
     TotalItems |-> Member(obj, "totalItems", d.TotalItems),
     PageIndex |-> Member(obj, "pageIndex", d.PageIndex),
     TotalPages |-> Member(obj, "totalPages", d.TotalPages),
     SelfLink |-> Member(obj, "selfLink", d.SelfLink),
     EditLink |-> Member(obj, "editLink", d.EditLink),
     NextLink |-> Member(obj, "nextLink", d.NextLink),
     PreviousLink |-> Member(obj, "previousLink", d.PreviousLink),
     Items |-> Member(obj, "items", d.Items),
     item |-> d.item]

DecodeErrorItem(obj) ==
    [Message |-> Member(obj, "message", ""),
     Location |-> Member(obj, "location", ""),
     LocationType |-> Member(obj, "locationType", ""),
     ExtendedHelper |-> Member(obj, "extendedHelper", ""),
     Domains |-> Member(obj, "domain", ""),
     Reason |-> Member(obj, "reason", ""),
     SendReport |-> Member(obj, "sendReport", "")]

DecodeError(obj, e) ==
    LET list == Member(obj, "errors", << >>)
    IN  [Code |-> Member(obj, "code", e.Code),
         Message |-> Member(obj, "message", e.Message),
         Errors |-> IF \E i \in 1..Len(obj) : obj[i][1] = "errors"
                    THEN [i \in 1..Len(list) |-> DecodeErrorItem(list[i])]
                    ELSE e.Errors]

\* A "params" member is decoded into the map the Response already has.
DecodeParams(obj, m) ==
    LET got == Member(obj, "params", EmptyMap)
    IN  [k \in ParamKeys |-> IF got[k] # Absent THEN got[k] ELSE m[k]]

\* NewFromHTTPResponse: res := New(); json.Unmarshal(body, res).  The result
\* is the Response (its Params the new reference p) and the map p refers to.
NewFromHTTPResponseOp(body, p) ==
    IF body = << >>
    THEN [resp |-> New(p), fresh |-> EmptyMap, err |-> ErrSyntax]
    ELSE LET res == New(p)
         IN  [resp |-> [APIVersion |-> Member(body, "apiVersion", res.APIVersion),
                        Context |-> Member(body, "context", res.Context),
                        ID |-> Member(body, "id", res.ID),
                        Method |-> Member(body, "method", res.Method),
                        Params |-> p,
                        Data |-> DecodeData(Member(body, "data", << >>), res.Data),
                        Error |-> DecodeError(Member(body, "error", << >>), res.Error)],
              fresh |-> DecodeParams(body, EmptyMap),
              err |-> NoError]

----------------------------------------------------------------------------
(* The state after construction, and one action per call. *)

Snapshot == [resp |-> resp, copies |-> copies, heap |-> heap]

NoCall ==
    [op |-> "none", err |-> NoError, panicked |-> FALSE, arg |-> NoValue,
     out |-> NoValue, keys |-> << >>, list |-> << >>, src |-> 0, new |-> 0,
     bytes |-> << >>, resp |-> New(NilMap), fresh |-> EmptyMap]

Succeeded(r) == ~r.panicked /\ r.err = NoError

\* r := New()
Init ==
    /\ heap = <<EmptyMap>>
    /\ resp = New(1)
    /\ copies = << >>
    /\ ret = NoCall
    /\ pre = [resp |-> New(1), copies |-> << >>, heap |-> <<EmptyMap>>]
    /\ nOK = 0
    /\ passed = << >>

\* err := r.Data.AddItem(v)
AddItem ==
    \E v \in Records :
        /\ Len(resp.Data.Items) < MaxItems
        /\ LET r == AddItemOp(resp.Data, v)
           IN  /\ resp' = [resp EXCEPT !.Data = r.d]
               /\ ret' = [NoCall EXCEPT !.op = "AddItem", !.err = r.err, !.arg = v]
               /\ nOK' = IF r.err = NoError THEN nOK + 1 ELSE nOK
        /\ pre' = Snapshot
        /\ UNCHANGED <<copies, heap, passed>>

\* r.Data.ResetItems()
ResetItems ==
    /\ resp' = [resp EXCEPT !.Data = ResetItemsOp(resp.Data)]
    /\ ret' = [NoCall EXCEPT !.op = "ResetItems"]
    /\ pre' = Snapshot
    /\ UNCHANGED <<copies, heap, nOK, passed>>

\* err := r.Data.CurrentItem(new(CarItem)); a panic is recovered by the caller.
CurrentItem ==
    /\ LET r == CurrentItemOp(resp.Data)
       IN  /\ resp' = [resp EXCEPT !.Data = r.d]
           /\ ret' = [NoCall EXCEPT !.op = "CurrentItem", !.err = r.err,
                                    !.out = r.out, !.panicked = r.panicked]
    /\ pre' = Snapshot
    /\ UNCHANGED <<copies, heap, nOK, passed>>

\* err := r.Data.NextItem(new(CarItem)); a panic is recovered by the caller.
NextItem ==
    /\ resp.Data.item < MaxCursor
    /\ LET r == NextItemOp(resp.Data)
       IN  /\ resp' = [resp EXCEPT !.Data = r.d]
           /\ ret' = [NoCall EXCEPT !.op = "NextItem", !.err = r.err,
                                    !.out = r.out, !.panicked = r.panicked]
    /\ pre' = Snapshot
    /\ UNCHANGED <<copies, heap, nOK, passed>>

\* Field names a caller passes: "", "a", "b" and "a,b".
Names == {<< >>, <<"a">>, <<"b">>, <<"a", Comma, "b">>}

\* The argument lists of AddField(keys ...string): zero to MaxKeys names.
KeyLists == UNION {[1..n -> Names] : n \in 0..MaxKeys}

\* r.Data.AddField(keys...)
AddField ==
    \E keys \in KeyLists :
        /\ Len(passed) + Len(keys) <= MaxPassed
        /\ resp' = [resp EXCEPT !.Data = AddFieldOp(resp.Data, keys)]
        /\ ret' = [NoCall EXCEPT !.op = "AddField", !.keys = keys]
        /\ passed' = passed \o keys
        /\ pre' = Snapshot
        /\ UNCHANGED <<copies, heap, nOK>>

\* fs := r.Data.GetFields()
GetFieldsCall ==
    /\ ret' = [NoCall EXCEPT !.op = "GetFields", !.list = GetFields(resp.Data)]
    /\ pre' = Snapshot
    /\ UNCHANGED <<resp, copies, heap, nOK, passed>>

NextFields == AddField \/ GetFieldsCall

SpecFields == Init /\ [][NextFields]_vars

\* The Response literal of the tests: its metadata, Data and Error values.
SampleMeta ==
    [APIVersion |-> "0.1", Context |-> "client_context", ID |-> "1234ABCD",
     Method |-> "cars.get"]

SampleData ==
    [Kind |-> "car", Fields |-> <<"c", Comma, "t">>,
     Etag |-> "08FQn8-eil7ImA9WxZbFEwo", ID |-> "0000001", Lang |-> "en",
     Updated |-> "2010-01-07T19:58:42.949Z", Deleted |-> FALSE,
     CurrentItemCount |-> 1, ItemsPerPage |-> 1, StartIndex |-> 1,
     TotalItems |-> 10, PageIndex |-> 1, TotalPages |-> 10,
     SelfLink |-> "google_json_style.json",
     EditLink |-> "google_json_style.json?edit",
     NextLink |-> "google_json_style.json?next",
     PreviousLink |-> "google_json_style.json?prev",
     Items |-> <<Marshal(CarItem("yellow", "sedan")).js>>, item |-> 0]

SampleError ==
    [Code |-> 404, Message |-> "Car Not Found",
     Errors |-> <<[Message |-> "Car Not Found", Location |-> "",
                   LocationType |-> "",
                   ExtendedHelper |-> "http://url.to.more.details.example.com/",
                   Domains |-> "", Reason |-> "",
                   SendReport |-> "http://report.example.com/"]>>]

\* r.APIVersion = "0.1" (or Context, ID, Method): the caller sets a field.
AssignField ==
    \E f \in DOMAIN SampleMeta :
        /\ resp' = [resp EXCEPT ![f] = SampleMeta[f]]
        /\ ret' = [NoCall EXCEPT !.op = "AssignField"]
        /\ pre' = Snapshot
        /\ UNCHANGED <<copies, heap, nOK, passed>>

\* r.Data = Data{...}; r.Error = Error{...}: the caller fills in the payloads.
AssignPayloads ==
    /\ resp' = [resp EXCEPT !.Data = SampleData, !.Error = SampleError]
    /\ ret' = [NoCall EXCEPT !.op = "AssignPayloads"]
    /\ pre' = Snapshot
    /\ UNCHANGED <<copies, heap, nOK, passed>>

\* e.Params[k] = v on Response number t; assignment to an entry of a nil map
\* is a run-time panic.
SetParam ==
    \E t \in 0..Len(copies), k \in ParamKeys, v \in ParamVals :
        LET ref == Env(resp, copies, t).Params
        IN  /\ heap' = IF ref = NilMap THEN heap
                       ELSE [heap EXCEPT ![ref][k] = v]
            /\ ret' = [NoCall EXCEPT !.op = "SetParam", !.src = t,
                                     !.panicked = (ref = NilMap)]
            /\ pre' = Snapshot
            /\ UNCHANGED <<resp, copies, nOK, passed>>

\* nr := e.Copy() on Response number t
Copy ==
    \E t \in 0..Len(copies) :
        /\ Len(copies) < MaxCopies
        /\ copies' = Append(copies, CopyOp(Env(resp, copies, t)))
        /\ ret' = [NoCall EXCEPT !.op = "Copy", !.src = t,
                                 !.new = Len(copies) + 1]
        /\ pre' = Snapshot
        /\ UNCHANGED <<resp, heap, nOK, passed>>

\* The caller fills in everything the Response literal of the tests sets,
\* except Params and Items: the metadata, the Data fields (CurrentItemCount
\* among them, overwritten by hand) and the Error.
AssignSample ==
    /\ resp' = [APIVersion |-> SampleMeta.APIVersion,
                Context |-> SampleMeta.Context,
                ID |-> SampleMeta.ID,
                Method |-> SampleMeta.Method,
                Params |-> resp.Params,
                Data |-> [SampleData EXCEPT !.Items = resp.Data.Items,
                                            !.item = resp.Data.item],
                Error |-> SampleError]
    /\ ret' = [NoCall EXCEPT !.op = "AssignSample"]
    /\ pre' = Snapshot
    /\ UNCHANGED <<copies, heap, nOK, passed>>

\* b, err := r.Write()
Write ==
    \E nilAsNull \in BOOLEAN :
        LET w == WriteOp(resp, heap, nilAsNull)
        IN  /\ resp' = w.r
            /\ ret' = [NoCall EXCEPT !.op = "Write", !.err = w.err,
                                     !.bytes = w.bytes]
            /\ pre' = Snapshot
            /\ UNCHANGED <<copies, heap, nOK, passed>>

\* res, err := NewFromHTTPResponse(http.Response{Body: b}), b the bytes the
\* Write() just before returned.
NewFromHTTPResponse ==
    /\ ret.op = "Write"
    /\ LET n == NewFromHTTPResponseOp(ret.bytes, Len(heap) + 1)
       IN  ret' = [NoCall EXCEPT !.op = "NewFromHTTPResponse", !.err = n.err,
                                 !.resp = n.resp, !.fresh = n.fresh]
    /\ pre' = Snapshot
    /\ UNCHANGED <<resp, copies, heap, nOK, passed>>

NextWire ==
    \/ AddItem \/ NextItem \/ AssignSample \/ SetParam \/ Write
    \/ NewFromHTTPResponse

SpecWire == Init /\ [][NextWire]_vars

NextEnv == AssignField \/ AssignPayloads \/ SetParam \/ Copy

SpecEnv == Init /\ [][NextEnv]_vars

NextItems == AddItem \/ ResetItems \/ CurrentItem \/ NextItem

SpecItems == Init /\ [][NextItems]_vars

----------------------------------------------------------------------------
(* Claims about the item store and the item cursor, checked under SpecItems. *)

\* The receiver of the last call as it was before the call, and as it is now.
Before == pre.resp.Data

Now == resp.Data

\* The last call decoded the stored item at Go index k into its target.
Yielded(k) ==
    /\ Succeeded(ret)
    /\ k >= 0 /\ k < ItemsCount(Before)
    /\ Marshal(ret.out).js = Before.Items[k + 1]

\* C1: after any sequence of AddItem calls on a fresh Data, ItemsCount()
\* equals the number of calls that returned nil, and so does CurrentItemCount.
C1_CountEqualsSuccessfulAdds ==
    /\ ItemsCount(Now) = nOK
    /\ Now.CurrentItemCount = nOK

\* C2: an AddItem call that returns an error leaves the Data unchanged: same
\* items, same CurrentItemCount.
C2_FailedAddItemChangesNothing ==
    (ret.op = "AddItem" /\ ret.err # NoError) => Now = Before

\* C3: on a Data with N >= 1 items, with the cursor inside the walk started
\* by ResetItems: CurrentItem at position 0 yields item 0; NextItem at a
\* position below N-1 succeeds, yields the next item and advances by one;
\* NextItem at position N-1 fails with "End of items" and does not move.
C3_CursorWalk ==
    LET n == ItemsCount(Before)
        p == Before.item
    IN  /\ (ret.op = "CurrentItem" /\ n >= 1 /\ p = 0) => Yielded(0)
        /\ (ret.op = "NextItem" /\ n >= 1 /\ p + 1 < n) =>
               Yielded(p + 1) /\ Now.item = p + 1
        /\ (ret.op = "NextItem" /\ n >= 1 /\ p + 1 = n) =>
               /\ ~ret.panicked /\ ret.err = ErrEndOfItems
               /\ Now.item = p

\* C4: in every reachable state the cursor position is between 0 and
\* ItemsCount(), both included.
C4_CursorWithinItems == 0 <= Now.item /\ Now.item <= ItemsCount(Now)

\* C5: CurrentItem with the cursor outside the stored items (the empty store
\* included) returns the error "no such item"; it does not panic and it
\* does not change the Data.
C5_CurrentItemReturnsIndexError ==
    (ret.op = "CurrentItem" /\ Before.item >= ItemsCount(Before)) =>
        /\ ~ret.panicked
        /\ ret.err = "no such item"
        /\ Now = Before

\* C6 as claimed: a NextItem call that succeeds from position p decodes the
\* item stored at index p and leaves the cursor at p + 1.
C6_NextItemYieldsItemAtOldPosition ==
    (ret.op = "NextItem" /\ Succeeded(ret)) =>
        Yielded(Before.item) /\ Now.item = Before.item + 1

\* C6 as amended: a NextItem call that succeeds from position p leaves the
\* cursor at p + 1 and decodes the item stored at index p + 1, the position
\* after the call.
C6_NextItemYieldsItemAtNewPosition ==
    (ret.op = "NextItem" /\ Succeeded(ret)) =>
        Yielded(Before.item + 1) /\ Now.item = Before.item + 1

\* A NextItem call from position 0 on <<red, green>> returned nil with green.
C6_Witness ==
    /\ ret.op = "NextItem" /\ Succeeded(ret)
    /\ Before.item = 0 /\ Now.item = 1
    /\ Before.Items = <<Marshal(RedSUV).js, Marshal(GreenHatchback).js>>
    /\ ret.out = GreenHatchback

\* C7: NextItem fails with "End of items" exactly when position + 1 >=
\* ItemsCount(); it never panics and never fails otherwise; a failing call
\* leaves the cursor where it was (so a loop calling NextItem until it fails
\* ends with "End of items", the empty store included).
C7_NextItemEndsOnlyWithEndOfItems ==
    ret.op = "NextItem" =>
        /\ ~ret.panicked
        /\ ret.err \in {NoError, ErrEndOfItems}
        /\ (ret.err = ErrEndOfItems <=> Before.item + 1 >= ItemsCount(Before))
        /\ (ret.err # NoError => Now.item = Before.item)

----------------------------------------------------------------------------
(* Claims about the field list, checked under SpecFields. *)

HasComma(name) == \E i \in 1..Len(name) : name[i] = Comma

NonEmptyNames(list) == \A i \in 1..Len(list) : list[i] # << >>

PlainNames(list) ==
    \A i \in 1..Len(list) : list[i] # << >> /\ ~HasComma(list[i])

\* C8 as claimed: after any sequence of AddField calls on a fresh Data, Fields
\* is the comma-join of all names passed, in order, duplicates kept; a call
\* with no names leaves Fields unchanged.
C8_FieldsIsJoinOfAllNames ==
    /\ Now.Fields = Join(passed)
    /\ (ret.op = "AddField" /\ ret.keys = << >>) => Now.Fields = Before.Fields

\* C8 as amended: the same, for sequences of calls in which every name passed
\* is non-empty.
C8_FieldsIsJoinOfNonEmptyNames ==
    /\ NonEmptyNames(passed) => Now.Fields = Join(passed)
    /\ (ret.op = "AddField" /\ ret.keys = << >>) => Now.Fields = Before.Fields

\* AddField("a") then AddField("b", "a"): Fields is "a,b,a", the repeated name kept.
C8_Witness ==
    /\ ret.op = "AddField"
    /\ ret.keys = << <<"b">>, <<"a">> >>
    /\ passed = << <<"a">>, <<"b">>, <<"a">> >>
    /\ Now.Fields = <<"a", Comma, "b", Comma, "a">>

\* C9 as claimed: if the fields decode to F, then after AddField(L...)
\* GetFields() returns F followed by L, for any list L of names; and
\* GetFields() on the empty Fields text returns the empty list.
C9_GetFieldsAfterAddField ==
    /\ ret.op = "AddField" => GetFields(Now) = GetFields(Before) \o ret.keys
    /\ (ret.op = "GetFields" /\ Now.Fields = << >>) => ret.list = << >>

\* C9 as amended: the same, for lists L whose names are non-empty and hold
\* no comma.
C9_GetFieldsAfterAddPlainNames ==
    /\ (ret.op = "AddField" /\ PlainNames(ret.keys)) =>
           GetFields(Now) = GetFields(Before) \o ret.keys
    /\ (ret.op = "GetFields" /\ Now.Fields = << >>) => ret.list = << >>

\* AddField("a", "b") on fields that decode to <<"a">>: GetFields() is a, a, b.
C9_Witness ==
    /\ ret.op = "AddField"
    /\ GetFields(Before) = << <<"a">> >>
    /\ ret.keys = << <<"a">>, <<"b">> >>
    /\ GetFields(Now) = << <<"a">>, <<"a">>, <<"b">> >>

----------------------------------------------------------------------------
(* Claims about the envelope, checked under SpecEnv. *)

\* C10: Copy() returns a new Response with the source's APIVersion, Method
\* and Params; its Context, ID, Data (metadata, items, cursor) and Error are
\* zero; the source, and every other Response and map, is unchanged.
C10_CopyCarriesMetadataOnly ==
    ret.op = "Copy" =>
        LET src == Env(pre.resp, pre.copies, ret.src)
            nr  == copies[ret.new]
        IN  /\ nr.APIVersion = src.APIVersion
            /\ nr.Method = src.Method
            /\ MapOf(heap, nr.Params) = MapOf(pre.heap, src.Params)
            /\ nr.Context = "" /\ nr.ID = ""
            /\ nr.Data = ZeroData
            /\ Len(nr.Data.Items) = 0 /\ nr.Data.item = 0
            /\ nr.Error = ZeroError
            /\ resp = pre.resp
            /\ heap = pre.heap
            /\ ret.new = Len(pre.copies) + 1
            /\ SubSeq(copies, 1, Len(pre.copies)) = pre.copies

\* A Copy() of the fully populated Response of the tests, with a parameter set.
C10_Witness ==
    /\ ret.op = "Copy" /\ ret.src = 0
    /\ pre.resp.APIVersion = "0.1" /\ pre.resp.Method = "cars.get"
    /\ pre.resp.Context = "client_context" /\ pre.resp.ID = "1234ABCD"
    /\ pre.resp.Data = SampleData /\ pre.resp.Error = SampleError
    /\ MapOf(pre.heap, pre.resp.Params)["color"] = "yellow"
    /\ copies[ret.new].APIVersion = "0.1"
    /\ copies[ret.new].Context = ""

----------------------------------------------------------------------------
(* Claims about Write, NewFromHTTPResponse and AddItem, checked under        *)
(* SpecWire.                                                                *)

\* An item that is the serialized form of a record.
IsSerializedRecord(js) == Unmarshal(js).err = NoError

\* The serialized forms of the records added to a Data, in the order added.
SerializedRecords(items) == SelectSeq(items, IsSerializedRecord)

\* The fields of a Data that are written, its items apart.
DataMetadata(d) == [d EXCEPT !.Items = << >>, !.item = 0]

\* C11: decoding the bytes Write() returned for a Response e with N items
\* added by AddItem succeeds and gives a Response with e's metadata and
\* parameters, with ItemsCount() = N, item k the serialized form of the k-th
\* record added, and with e's error details.
C11_WriteThenDecodeReproduces ==
    ret.op = "NewFromHTTPResponse" =>
        LET e == pre.resp
            g == ret.resp
        IN  /\ Succeeded(ret)
            /\ g.APIVersion = e.APIVersion /\ g.Context = e.Context
            /\ g.ID = e.ID /\ g.Method = e.Method
            /\ ret.fresh = MapOf(pre.heap, e.Params)
            /\ DataMetadata(g.Data) = DataMetadata(e.Data)
            /\ ItemsCount(g.Data) = nOK
            /\ g.Data.Items = SerializedRecords(e.Data.Items)
            /\ g.Error = e.Error

\* The "data" object of the bytes the last Write() returned.
WrittenData == Member(ret.bytes, "data", << >>)

\* C12: after any Write() call CurrentItemCount = ItemsCount(), whatever it
\* was before; the currentItemCount written equals the number of items
\* written; no other field of the Response changes, the cursor does not
\* move, and no other Response or map changes.
C12_WriteRefreshesCount ==
    ret.op = "Write" =>
        /\ Now.CurrentItemCount = ItemsCount(Now)
        /\ [resp EXCEPT !.Data.CurrentItemCount = 0]
               = [pre.resp EXCEPT !.Data.CurrentItemCount = 0]
        /\ Now.item = Before.item /\ Now.Items = Before.Items
        /\ copies = pre.copies /\ heap = pre.heap
        /\ Succeeded(ret) =>
               Member(WrittenData, "currentItemCount", 0)
                   = Len(Member(WrittenData, "items", << >>))

\* A Write() that returned bytes for two items, with CurrentItemCount set to
\* 1 by hand before the call and the cursor at 1.
C12_Witness ==
    /\ ret.op = "Write" /\ Succeeded(ret)
    /\ ItemsCount(Before) = 2 /\ Before.CurrentItemCount = 1
    /\ Before.item = 1 /\ Now.item = 1
    /\ Now.CurrentItemCount = 2
    /\ Member(WrittenData, "currentItemCount", 0) = 2
    /\ Before.TotalItems = 10

\* C13: an AddItem call that returns nil appends exactly one entry, the
\* serialized record, at the end of Items; the earlier items keep index and
\* contents; the cursor, the pagination counters, Fields and all other
\* metadata are unchanged; only CurrentItemCount changes besides.
C13_AddItemAppendsOnly ==
    (ret.op = "AddItem" /\ Succeeded(ret)) =>
        /\ Len(Now.Items) = Len(Before.Items) + 1
        /\ SubSeq(Now.Items, 1, Len(Before.Items)) = Before.Items
        /\ Now.Items[Len(Now.Items)] = Marshal(ret.arg).js
        /\ Now.item = Before.item
        /\ Now.ItemsPerPage = Before.ItemsPerPage
        /\ Now.StartIndex = Before.StartIndex
        /\ Now.TotalItems = Before.TotalItems
        /\ Now.PageIndex = Before.PageIndex
        /\ Now.TotalPages = Before.TotalPages
        /\ Now.Fields = Before.Fields
        /\ [Now EXCEPT !.Items = << >>, !.CurrentItemCount = 0]
               = [Before EXCEPT !.Items = << >>, !.CurrentItemCount = 0]
        /\ [resp EXCEPT !.Data = ZeroData] = [pre.resp EXCEPT !.Data = ZeroData]
        /\ copies = pre.copies /\ heap = pre.heap

\* AddItem(green) returned nil on a Data holding <<red, red>> with the
\* cursor at 1 and the pagination counters of the tests.
C13_Witness ==
    /\ ret.op = "AddItem" /\ Succeeded(ret) /\ ret.arg = GreenHatchback
    /\ Before.Items = <<Marshal(RedSUV).js, Marshal(RedSUV).js>>
    /\ Before.item = 1
    /\ Before.TotalItems = 10 /\ Before.TotalPages = 10
    /\ Before.Fields # << >>
    /\ Now.Items[3] = Marshal(GreenHatchback).js
    /\ Now.CurrentItemCount = 3

----------------------------------------------------------------------------
(* Claim about the parameter maps of copies, checked under SpecEnv. *)

\* C14: writing an entry of the parameter map of one Response changes the
\* parameter map of no other Response: a copy and its template (and the
\* other copies of the template) are independent.
C14_CopiesHaveOwnParams ==
    (ret.op = "SetParam" /\ ~ret.panicked) =>
        \A u \in 0..Len(copies) :
            u # ret.src =>
                MapOf(heap, Env(resp, copies, u).Params)
                    = MapOf(pre.heap, Env(pre.resp, pre.copies, u).Params)

====
